---- MODULE Spec2Model ----
(***************************************************************************)
(* Model of the SSH key-distribution workflow of clusterctrl_gui.py        *)
(* (ClusterCtrlGUI._distribute_ssh_key_for_node) and of the command        *)
(* gateway it uses (run_clusterctrl_command).                              *)
(*                                                                         *)
(* Text is modelled as a sequence of atoms.  The atoms " " (whitespace)    *)
(* and "'" (quote) are the characters str.strip and shlex.split act on;    *)
(* every other atom stands for a run of ordinary characters.               *)
(***************************************************************************)
EXTENDS Integers, Sequences, FiniteSets, TLC

VARIABLES
    ssh_fields,   \* self.ssh_fields: per node label the texts of the three line edits
    edits,        \* number of edits the operator has made so far (bounded)
    pc,           \* position of the Distribute handler
    node_label,   \* argument of the running handler
    user_host,    \* local: uh_edit.text().strip()
    keyfile,      \* local: kf_edit.text().strip()
    password,     \* local: pw_edit.text()
    max_wait,     \* local: the wait budget in seconds (fixed by Init)
    interval,     \* local: the poll interval in seconds (fixed by Init)
    elapsed,      \* local: seconds slept in the wait loop
    calls,        \* history: external steps of this invocation, in order
    rc_which,     \* <<>> until the prerequisite lookup returned, then <<returncode>>
    rc_on,        \* <<>> until the power-on command returned, then <<rc>>
    last_probe,   \* what the most recent reachability probe did
    proc_rc,      \* <<>> until the key-install helper returned, then <<returncode>>
    rc_off,       \* <<>> until the power-off command returned, then <<rc>>
    msgbox,       \* the message box the handler ended with
    exc,          \* the exception that left the handler, "" if none
    observe_time, \* whether the duration of the probes is observed (fixed by Init)
    clock,        \* history: seconds of wall time since the wait loop was entered
    recording,    \* whether the first Succeeded run is remembered (fixed by Init)
    given,        \* history: the row of line edits the running handler was started on
    first,        \* history: the first Succeeded run, when recording
    settings,     \* self.settings
    config_file,  \* contents of config.json
    current_board_def, \* self.current_board_def: index into ALL_BOARDS, 0 before selection
    node_widgets, \* self.node_widgets: per node label of the board the LED icon shown
    enabled,      \* which of the extras buttons are enabled
    status,       \* the snapshot the last status query parsed
    status_label, \* text of self.status_label
    ctl_box,      \* the message box a control-tab or settings handler ended with
    ctl_cmd       \* history: arguments of the last command a control-tab handler issued

vars == <<ssh_fields, edits, pc, node_label, user_host, keyfile, password,
          elapsed, calls, rc_which, rc_on, last_probe, proc_rc, rc_off,
          msgbox, exc, observe_time, clock, recording, given, first,
          max_wait, interval,
          settings, config_file, current_board_def, node_widgets, enabled,
          status, status_label, ctl_box, ctl_cmd>>

(***************************************************************************)
(* Bounds of the model                                                     *)
(***************************************************************************)
MaxEdits == 1
MaxBudget == 6
MaxInterval == 4

(***************************************************************************)
(* Program constants                                                       *)
(***************************************************************************)
labels == {"p1", "p2", "p3", "p4"}
token == <<"u", "p">>

(***************************************************************************)
(* Text helpers                                                            *)
(***************************************************************************)
whitespace == {" ", "\n"}

RECURSIVE lstrip(_)
lstrip(s) ==
    IF s # <<>> /\ Head(s) \in whitespace THEN lstrip(Tail(s)) ELSE s

RECURSIVE rstrip(_)
rstrip(s) ==
    IF s # <<>> /\ s[Len(s)] \in whitespace THEN rstrip(SubSeq(s, 1, Len(s) - 1)) ELSE s

strip(s) == rstrip(lstrip(s))

upper(nl) ==
    CASE nl = "p1" -> "P1"
      [] nl = "p2" -> "P2"
      [] nl = "p3" -> "P3"
      [] nl = "p4" -> "P4"
      [] OTHER -> nl

\* Python's `sub in s` for strings
contains(s, sub) ==
    \E i \in 0..(Len(s) - Len(sub)) :
        \A j \in 1..Len(sub) : s[i + j] = sub[j]

\* shlex.split: whitespace separates words, a quote opens a literal run up to
\* the closing quote, an unclosed quote raises ValueError.
RECURSIVE shlex_scan(_, _, _, _, _)
shlex_scan(s, i, toks, cur, st) ==
    IF i > Len(s)
    THEN IF st = "quote"
         THEN [raised |-> TRUE, argv |-> <<>>]
         ELSE [raised |-> FALSE,
               argv |-> IF st = "word" THEN Append(toks, cur) ELSE toks]
    ELSE LET c == s[i] IN
         IF st = "quote"
         THEN IF c = "'"
              THEN shlex_scan(s, i + 1, toks, cur, "word")
              ELSE shlex_scan(s, i + 1, toks, Append(cur, c), "quote")
         ELSE IF c = " "
              THEN shlex_scan(s, i + 1,
                              IF st = "word" THEN Append(toks, cur) ELSE toks,
                              <<>>, "space")
              ELSE IF c = "'"
                   THEN shlex_scan(s, i + 1, toks, cur, "quote")
                   ELSE shlex_scan(s, i + 1, toks, Append(cur, c), "word")

shlex_split(s) == shlex_scan(s, 1, <<>>, <<>>, "space")

(***************************************************************************)
(* The external world: what a spawned process can do                       *)
(***************************************************************************)
\* subprocess.run of the clusterctrl executable
ClusterctrlRuns ==
    { [kind |-> "exit", rc |-> 0, out |-> <<"ok", " ">>, err |-> <<>>],
      [kind |-> "exit", rc |-> 1, out |-> <<>>, err |-> <<"e1", " ">>],
      [kind |-> "FileNotFoundError", rc |-> 0, out |-> <<>>, err |-> <<>>],
      [kind |-> "PermissionError", rc |-> 0, out |-> <<>>, err |-> <<>>] }

\* subprocess.run(["which", "sshpass"])
WhichRuns ==
    { [kind |-> "exit", rc |-> 0],
      [kind |-> "exit", rc |-> 1],
      [kind |-> "FileNotFoundError", rc |-> 0] }

\* subprocess.run of the ssh probe
ProbeRuns ==
    { [kind |-> "exit", rc |-> r, stdout |-> o] :
          r \in {0, 255},
          o \in { <<>>, <<"p", "u">>, <<"s", "u", "p", "\n">> } }
    \cup { [kind |-> "OSError", rc |-> 0, stdout |-> <<>>] }

\* subprocess.run of sshpass ... ssh-copy-id
CopyRuns ==
    { [kind |-> "exit", rc |-> 0, stderr |-> <<>>],
      [kind |-> "exit", rc |-> 1, stderr |-> <<"denied", " ">>],
      [kind |-> "FileNotFoundError", rc |-> 0, stderr |-> <<>>] }

\* subprocess.run of clusterctrl status
StatusRuns ==
    { [kind |-> "exit", rc |-> 0, err |-> <<>>,
       out |-> <<"p1", ":", " ", "1", "\n", "hub", ":", "0", "\n", "not-a-line", "\n",
                 "fan", " ", ":", " ", "1">>],
      [kind |-> "exit", rc |-> 0, err |-> <<>>,
       out |-> <<"p1", ":", "0", "\n", " ", "p1", " ", ":", " ", "1", " ", "\n",
                 "hub", ":", "1", "\n", "alert", ":", "1", "\n", "wp", ":", "1", "\n",
                 "fan", ":", "0", "\n", "note", ":", "a", ":", "b", "\n">>],
      [kind |-> "exit", rc |-> 0, err |-> <<>>, out |-> <<>>],
      [kind |-> "exit", rc |-> 1, err |-> <<"no", " ", "i2c", "\n">>, out |-> <<>>],
      [kind |-> "FileNotFoundError", rc |-> 0, out |-> <<>>, err |-> <<>>],
      [kind |-> "PermissionError", rc |-> 0, out |-> <<>>, err |-> <<>>] }

\* the status query made while the window is built
StartupRun ==
    [kind |-> "exit", rc |-> 0, err |-> <<>>,
     out |-> <<"p1", ":", " ", "1", "\n", "hub", ":", "0", "\n", "not-a-line", "\n",
               "fan", " ", ":", " ", "1">>]

\* how long one probe takes: up to its ConnectTimeout when its duration is observed
ProbeDurations(observed) == IF observed THEN {0, interval} ELSE {0}

\* what open() and json.dump of _save_settings can do
SaveRuns == {"written", "open failed", "dump failed"}

\* what the operator can type into the line edits
UserHostTexts == { <<" ">>, <<" ", "pi@h">> }
KeyfileTexts == { <<>> }
PasswordTexts == { <<"pw">>, <<"it", "'", "s">> }

(***************************************************************************)
(* Board command gateway                                                   *)
(***************************************************************************)
not_found_msg == <<"clusterctrl not found; ensure it's installed and in PATH.">>

\* run_clusterctrl_command: what the caller gets for a run of the executable
run_clusterctrl_command(run) ==
    IF run.kind = "exit"
    THEN [raised |-> "", rc |-> run.rc, out |-> strip(run.out), err |-> strip(run.err)]
    ELSE IF run.kind = "FileNotFoundError"
         THEN [raised |-> "", rc |-> -1, out |-> <<>>, err |-> not_found_msg]
         ELSE [raised |-> run.kind, rc |-> 0, out |-> <<>>, err |-> <<>>]

(***************************************************************************)
(* Status snapshot parser                                                  *)
(***************************************************************************)
\* position of the first c in s, 0 if there is none
find(s, c) ==
    IF \E i \in 1..Len(s) : s[i] = c
    THEN CHOOSE i \in 1..Len(s) : s[i] = c /\ \A j \in 1..(i - 1) : s[j] # c
    ELSE 0

\* position of the last c in s, 0 if there is none
rfind(s, c) ==
    IF \E i \in 1..Len(s) : s[i] = c
    THEN CHOOSE i \in 1..Len(s) : s[i] = c /\ \A j \in (i + 1)..Len(s) : s[j] # c
    ELSE 0

\* str.splitlines
RECURSIVE splitlines(_)
splitlines(s) ==
    IF s = <<>> THEN <<>>
    ELSE LET i == find(s, "\n") IN
         IF i = 0 THEN <<s>>
         ELSE <<SubSeq(s, 1, i - 1)>> \o splitlines(SubSeq(s, i + 1, Len(s)))

\* line.split(":", 1) of a line that has a colon
split_colon_last(line) ==
    LET i == rfind(line, ":") IN
    [key |-> SubSeq(line, 1, i - 1), val |-> SubSeq(line, i + 1, Len(line))]

split_colon(line) ==
    LET i == find(line, ":") IN
    [key |-> SubSeq(line, 1, i - 1), val |-> SubSeq(line, i + 1, Len(line))]

\* status[key] = val
dict_set(d, key, val) ==
    [k \in DOMAIN d \cup {key} |-> IF k = key THEN val ELSE d[k]]

\* status.get(key, default)
dict_get(d, key, default) == IF key \in DOMAIN d THEN d[key] ELSE default

\* the for loop of parse_clusterctrl_status over the lines from the i-th on
RECURSIVE parse_lines(_, _, _)
parse_lines(lines, i, d) ==
    IF i > Len(lines) THEN d
    ELSE LET line == strip(lines[i]) IN
         IF find(line, ":") = 0
         THEN parse_lines(lines, i + 1, d)
         ELSE LET kv == split_colon(line) IN
              parse_lines(lines, i + 1, dict_set(d, strip(kv.key), strip(kv.val)))

NoStatus == [ok |-> FALSE, map |-> <<>>]

\* parse_clusterctrl_status, given what run_clusterctrl_command(["status"]) returned
parse_clusterctrl_status(r) ==
    IF r.rc # 0
    THEN [status |-> NoStatus,
          err |-> <<"Error running clusterctrl status: ">> \o r.err]
    ELSE [status |-> [ok |-> TRUE, map |-> parse_lines(splitlines(r.out), 1, <<>>)],
          err |-> <<>>]

(***************************************************************************)
(* Board capability model                                                  *)
(***************************************************************************)
Board(n, nodes, hub_led, alert, wp) ==
    [name |-> n, supports_nodes |-> nodes, supports_hub_led |-> hub_led,
     supports_alert |-> alert, supports_wp |-> wp]

ALL_BOARDS_triple_wp ==
    << Board("ClusterHAT v2.x", 4, TRUE, TRUE, TRUE),
       Board("ClusterHAT v1.x", 4, FALSE, TRUE, FALSE),
       Board("ClusterCTRL Single", 1, FALSE, FALSE, FALSE),
       Board("ClusterCTRL Triple", 3, TRUE, TRUE, TRUE),
       Board("ClusterCTRL A+6", 6, TRUE, TRUE, FALSE) >>

ALL_BOARDS ==
    << Board("ClusterHAT v2.x", 4, TRUE, TRUE, TRUE),
       Board("ClusterHAT v1.x", 4, FALSE, TRUE, FALSE),
       Board("ClusterCTRL Single", 1, FALSE, FALSE, FALSE),
       Board("ClusterCTRL Triple", 3, TRUE, TRUE, FALSE),
       Board("ClusterCTRL A+6", 6, TRUE, TRUE, FALSE) >>

\* f"p{i}"
label_of(i) == <<"p1", "p2", "p3", "p4", "p5", "p6">>[i]

\* BoardDefinition.valid_node_labels
valid_node_labels(bd) == [i \in 1..bd.supports_nodes |-> label_of(i)]

\* support_map of _run_extra, also the enabling of the buttons in _on_board_changed
support_map(bd) ==
    [hub |-> bd.supports_hub_led, led |-> bd.supports_hub_led,
     alert |-> bd.supports_alert, wp |-> bd.supports_wp, fan |-> TRUE]

extras == {"hub", "led", "alert", "wp", "fan"}

(***************************************************************************)
(* Consumers of a status snapshot                                          *)
(***************************************************************************)
zero == <<"0">>
one == <<"1">>

\* the command _toggle_node issues for a node
toggle_args_default_on(d, nl) ==
    IF dict_get(d, <<nl>>, one) = one THEN <<"off", nl>> ELSE <<"on", nl>>

toggle_args(d, nl) ==
    IF dict_get(d, <<nl>>, zero) = one THEN <<"off", nl>> ELSE <<"on", nl>>

\* the pixmap _refresh_status sets for a node
icon_of(d, nl) ==
    IF dict_get(d, <<nl>>, zero) = one THEN "green" ELSE "red"

on_off(val) == IF val = one THEN "ON" ELSE "OFF"

upper_label(nl) ==
    CASE nl = "p5" -> "P5"
      [] nl = "p6" -> "P6"
      [] OTHER -> upper(nl)

\* the entries of the status summary
node_states(bd, d) ==
    [i \in 1..bd.supports_nodes |->
        <<upper_label(label_of(i)), "=", on_off(dict_get(d, <<label_of(i)>>, zero))>>]

extras_states(bd, d) ==
    (IF bd.supports_hub_led
     THEN << <<"HUB", "=", on_off(dict_get(d, <<"hub">>, zero))>>,
             <<"LED", "=", on_off(dict_get(d, <<"led">>, zero))>> >>
     ELSE <<>>)
    \o (IF bd.supports_alert
        THEN << <<"ALERT", "=",
                  on_off(dict_get(d, <<"hat_alert">>, dict_get(d, <<"alert">>, zero)))>> >>
        ELSE <<>>)
    \o (IF bd.supports_wp
        THEN << <<"WP", "=", on_off(dict_get(d, <<"wp">>, zero))>> >>
        ELSE <<>>)
    \o (IF <<"fan">> \in DOMAIN d
        THEN << <<"FAN", "=", on_off(d[<<"fan">>])>> >>
        ELSE <<>>)

\* "   |   ".join(entries)
RECURSIVE join(_)
join(entries) ==
    IF entries = <<>> THEN <<>>
    ELSE IF Len(entries) = 1 THEN Head(entries)
         ELSE Head(entries) \o <<"   |   ">> \o join(Tail(entries))

summary(bd, d) == join(node_states(bd, d) \o extras_states(bd, d))

(***************************************************************************)
(* Decisions of the handler                                                *)
(***************************************************************************)
missing_info(uh, kf) == uh = <<>> \/ kf = <<>>

sshpass_missing_negative(returncode) == returncode < 0

sshpass_missing(returncode) == returncode # 0

power_on_failed_positive(rc) == rc > 0

power_on_failed(rc) == rc # 0

loop_guard_inclusive(e) == e <= max_wait

loop_guard(e) == e < max_wait

probe_up_token_only(completed) ==
    contains(completed.stdout, token)

probe_up(completed) ==
    completed.rc = 0 /\ contains(completed.stdout, token)

timed_out_early(e) == e >= max_wait - interval

\* elapsed += interval, after time.sleep(interval)
slept_not_counted(e) == e

slept(e) == e + interval

timed_out_strict(e) == e > max_wait

timed_out(e) == e >= max_wait

copy_failed_negative(returncode) == returncode < 0

copy_failed_above_one(returncode) == returncode > 1

copy_failed(returncode) == returncode # 0

power_off_failed_positive(rc) == rc > 0

power_off_failed(rc) == rc # 0

\* self.ssh_fields[node_label]: the row of line edits of a node
row_of_first(fields, nl) == fields["p1"]

row_of(fields, nl) == fields[nl]

\* pw_edit.clear() of the node's row
password_cleared_all(fields, nl) ==
    [l \in DOMAIN fields |-> [fields[l] EXCEPT !.pw = <<>>]]

password_cleared(fields, nl) == [fields EXCEPT ![nl].pw = <<>>]

(***************************************************************************)
(* Command lines built by the handler                                      *)
(***************************************************************************)
ssh_cmd(kf, uh) ==
    <<"ssh", " ", "-o", " ", "BatchMode=yes", " ", "-o", " ",
      "ConnectTimeout=", ToString(interval), " ", "-i", " ">>
    \o kf \o <<" ">> \o uh \o <<" ", "echo", " ">> \o token

copy_cmd(pw, kf, uh) ==
    <<"sshpass", " ", "-p", " ">> \o pw
    \o <<" ", "ssh-copy-id", " ", "-o", " ", "StrictHostKeyChecking=no", " ", "-i", " ">>
    \o kf \o <<" ">> \o uh

(***************************************************************************)
(* Message boxes the handler ends with                                     *)
(***************************************************************************)
NoBox == [icon |-> "", title |-> "", text |-> <<>>]

MissingInfoBox(nl) ==
    [icon |-> "warning", title |-> "Missing Info",
     text |-> <<"Please specify User@Host and Keyfile for ", upper(nl), ".">>]

SshpassMissingBox ==
    [icon |-> "warning", title |-> "sshpass Missing",
     text |-> <<"sshpass is required to distribute SSH keys. Please install it first.">>]

PowerOnErrorBox(nl, err_on) ==
    [icon |-> "critical", title |-> "Error",
     text |-> <<"Failed to power ON ", upper(nl), ": ">> \o err_on]

TimeoutBox(uh, nl) ==
    [icon |-> "warning", title |-> "Timeout",
     text |-> uh \o <<" did not respond within ", ToString(max_wait), " seconds.\n",
                      upper(nl), " remains powered ON for manual setup.">>]

CopyFailedBox(uh, stderr) ==
    [icon |-> "critical", title |-> "SSH Copy Failed",
     text |-> <<"Failed to copy SSH key to ">> \o uh \o <<":\n">> \o strip(stderr)]

PowerOffFailedBox(nl, err_off) ==
    [icon |-> "warning", title |-> "Power Off Failed",
     text |-> <<upper(nl), " was ON and key copied, but failed to power OFF: ">> \o err_off]

SuccessBox(uh, nl) ==
    [icon |-> "information", title |-> "Success",
     text |-> <<"SSH key copied to ">> \o uh \o <<" and ", upper(nl), " powered OFF.">>]

\* the outcome a message box of the handler stands for
DistributionOutcome(m) ==
    CASE m.title = "Success"          -> "Succeeded"
      [] m.title = "sshpass Missing"  -> "MissingPrerequisite"
      [] m.title = "Error"            -> "PowerOnFailed"
      [] m.title = "Timeout"          -> "Timeout"
      [] m.title = "SSH Copy Failed"  -> "KeyInstallFailed"
      [] m.title = "Power Off Failed" -> "PowerOffFailed"
      [] m.title = "Missing Info"     -> "MissingInfo"
      [] OTHER                        -> "None"

(***************************************************************************)
(* Initial state: the window as built from the default settings            *)
(***************************************************************************)
default_user_host(nl) == <<"pi@", nl, ".local">>
default_keyfile == <<"~/.ssh/id_rsa">>

NoProbe == [kind |-> "", rc |-> 0, stdout |-> <<>>]
NoRow == [uh |-> <<>>, kf |-> <<>>, pw |-> <<>>]
NoRun == [node |-> "", given |-> NoRow, calls |-> <<>>, box |-> NoBox]
NoFile == [absent |-> TRUE]

\* the labels of all boards
all_labels == UNION { {valid_node_labels(ALL_BOARDS[b])[i] :
                          i \in 1..ALL_BOARDS[b].supports_nodes} : b \in 1..Len(ALL_BOARDS) }

\* the default structure of _load_settings
default_settings ==
    [mode |-> "cnat",
     ssh |-> [nl \in all_labels |->
                 [user_host |-> default_user_host(nl), keyfile |-> default_keyfile]],
     refresh_interval |-> 5,
     theme |-> "light",
     led_icon_size |-> 16,
     play_sound_on_off |-> FALSE,
     cpu_alert_threshold |-> 80,
     email_alert |-> <<>>]

\* no command issued by the control tab; a command is kept with the snapshot
\* it was decided on
NoCmd == [seen |-> <<>>, args |-> <<>>]

ErrorBox(text) == [icon |-> "critical", title |-> "Error", text |-> text]

\* _build_node_widgets: one red icon per node of the board
built_node_widgets(bd) ==
    [nl \in {valid_node_labels(bd)[i] : i \in 1..bd.supports_nodes} |-> "red"]

\* a status query: the gateway's result and what parse_clusterctrl_status makes of it
StatusQuery(run) ==
    LET r == run_clusterctrl_command(run) IN
    [raised |-> r.raised,
     stdout |-> run.out,
     ps |-> IF r.raised # "" THEN [status |-> NoStatus, err |-> <<>>]
            ELSE parse_clusterctrl_status(r)]

StatusQueries == { StatusQuery(run) : run \in StatusRuns }

\* _refresh_status, given the outcome of its status query
refresh_status(bd, widgets, label, ps) ==
    IF ~ps.status.ok
    THEN [status |-> ps.status, widgets |-> widgets, label |-> label,
          box |-> ErrorBox(ps.err)]
    ELSE [status |-> ps.status,
          widgets |-> [nl \in DOMAIN widgets |-> icon_of(ps.status.map, nl)],
          label |-> summary(bd, ps.status.map),
          box |-> NoBox]

\* what the last _refresh_status got: the status it parsed and the standard
\* output it was parsed from
Got(q) == [ok |-> q.ps.status.ok, map |-> q.ps.status.map, stdout |-> q.stdout]

\* max_wait = 120 and interval = 5, as the handler assigns them
PollConfig ==
    /\ max_wait = 120
    /\ interval = 5

\* the control tab as __init__ leaves it: first board selected, status refreshed
Built ==
    LET bd == ALL_BOARDS[1]
        rf == refresh_status(bd, built_node_widgets(bd), <<>>, StatusQuery(StartupRun).ps)
    IN [current_board_def |-> 1,
        node_widgets |-> rf.widgets,
        enabled |-> support_map(bd),
        status |-> Got(StatusQuery(StartupRun)),
        status_label |-> rf.label,
        ctl_box |-> rf.box]

\* the window as __init__ leaves it: default settings, no config file, first board selected
Constructed ==
    /\ settings = default_settings
    /\ config_file = NoFile
    /\ current_board_def = Built.current_board_def
    /\ node_widgets = Built.node_widgets
    /\ enabled = Built.enabled
    /\ status = Built.status
    /\ status_label = Built.status_label
    /\ ctl_box = Built.ctl_box
    /\ ctl_cmd = NoCmd
    /\ clock = 0
    /\ given = NoRow
    /\ first = NoRun

(***************************************************************************)
(* _load_settings                                                          *)
(***************************************************************************)
\* a configuration file that holds valid JSON
File(data) == [absent |-> FALSE, partial |-> FALSE, data |-> data]

\* a settings record with values of its own
CustomSettings ==
    [default_settings EXCEPT !.theme = "dark", !.refresh_interval = 9,
                             !.ssh["p1"].user_host = <<"pi@n1">>]

Without(d, key) == [k \in DOMAIN d \ {key} |-> d[k]]

\* what can be in config.json when the program starts
ConfigFiles ==
    { NoFile,
      [absent |-> FALSE, partial |-> TRUE, data |-> CustomSettings],
      File(CustomSettings),
      File(Without(CustomSettings, "theme")),
      File(Without(CustomSettings, "ssh")),
      File([CustomSettings EXCEPT
               !.ssh = [nl \in labels |-> CustomSettings.ssh[nl]]]),
      File([CustomSettings EXCEPT
               !.ssh = [nl \in {"p1"} |-> CustomSettings.ssh[nl]]]) }

\* the loop that merges the top-level keys of the defaults into the loaded data
merge_top(loaded, default) ==
    [k \in DOMAIN loaded \cup DOMAIN default |->
        IF k \in DOMAIN loaded THEN loaded[k] ELSE default[k]]

\* _load_settings: a file that cannot be opened or parsed gives the defaults;
\* the assignment for a missing ssh entry uses the undefined name l, and the
\* NameError it raises is caught by the except clause, which gives the defaults
load_settings(file) ==
    IF file.absent THEN default_settings
    ELSE IF file.partial THEN default_settings
    ELSE LET loaded == merge_top(file.data, default_settings) IN
         IF \E nl \in DOMAIN default_settings.ssh : nl \notin DOMAIN loaded.ssh
         THEN default_settings
         ELSE loaded

Init ==
    /\ Constructed
    /\ PollConfig
    /\ observe_time = FALSE
    /\ recording = FALSE
    /\ ssh_fields = [nl \in labels |->
                        [uh |-> default_user_host(nl), kf |-> default_keyfile, pw |-> <<>>]]
    /\ edits = 0
    /\ pc = "idle"
    /\ node_label = ""
    /\ user_host = <<>>
    /\ keyfile = <<>>
    /\ password = <<>>
    /\ elapsed = 0
    /\ calls = <<>>
    /\ rc_which = <<>>
    /\ rc_on = <<>>
    /\ last_probe = NoProbe
    /\ proc_rc = <<>>
    /\ rc_off = <<>>
    /\ msgbox = NoBox
    /\ exc = ""

locals == <<node_label, user_host, keyfile, password>>
results == <<rc_which, rc_on, last_probe, proc_rc, rc_off>>
timing == <<observe_time, clock, max_wait, interval>>
history == <<recording, given, first>>
persisted == <<settings, config_file>>
control == <<current_board_def, node_widgets, enabled, status, status_label, ctl_box, ctl_cmd>>

(***************************************************************************)
(* The operator types into one of the line edits                           *)
(***************************************************************************)
EditUserHost ==
    /\ pc = "idle" /\ edits < MaxEdits
    /\ \E nl \in labels, t \in UserHostTexts :
          /\ ssh_fields[nl].uh # t
          /\ ssh_fields' = [ssh_fields EXCEPT ![nl].uh = t]
    /\ edits' = edits + 1
    /\ UNCHANGED <<pc, locals, elapsed, calls, results, msgbox, exc>>
    /\ UNCHANGED <<timing, history, persisted, control>>

EditKeyfile ==
    /\ pc = "idle" /\ edits < MaxEdits
    /\ \E nl \in labels, t \in KeyfileTexts :
          /\ ssh_fields[nl].kf # t
          /\ ssh_fields' = [ssh_fields EXCEPT ![nl].kf = t]
    /\ edits' = edits + 1
    /\ UNCHANGED <<pc, locals, elapsed, calls, results, msgbox, exc>>
    /\ UNCHANGED <<timing, history, persisted, control>>

EditPassword ==
    /\ pc = "idle" /\ edits < MaxEdits
    /\ \E nl \in labels, t \in PasswordTexts :
          /\ ssh_fields[nl].pw # t
          /\ ssh_fields' = [ssh_fields EXCEPT ![nl].pw = t]
    /\ edits' = edits + 1
    /\ UNCHANGED <<pc, locals, elapsed, calls, results, msgbox, exc>>
    /\ UNCHANGED <<timing, history, persisted, control>>

(***************************************************************************)
(* _distribute_ssh_key_for_node, one action per external step              *)
(***************************************************************************)
Call(op, args) == [op |-> op, args |-> args]

\* the Distribute button of a node: read the fields, refuse empty ones
DistributeClicked ==
    /\ pc = "idle"
    /\ \E nl \in labels :
          LET row == row_of(ssh_fields, nl)
              uh == strip(row.uh)
              kf == strip(row.kf)
          IN /\ node_label' = nl
             /\ given' = ssh_fields[nl]
             /\ user_host' = uh
             /\ keyfile' = kf
             /\ password' = row.pw
             /\ IF missing_info(uh, kf)
                THEN /\ msgbox' = MissingInfoBox(nl)
                     /\ pc' = "done"
                ELSE /\ msgbox' = NoBox
                     /\ pc' = "prereq"
    /\ UNCHANGED <<ssh_fields, edits, elapsed, calls, results, exc>>
    /\ UNCHANGED <<timing, recording, first, persisted, control>>

\* 0. which sshpass
PrereqCheck ==
    /\ pc = "prereq"
    /\ \E run \in WhichRuns :
          /\ calls' = Append(calls, Call("which", <<"sshpass">>))
          /\ IF run.kind # "exit"
             THEN /\ exc' = run.kind
                  /\ pc' = "raised"
                  /\ UNCHANGED <<rc_which, msgbox>>
             ELSE /\ rc_which' = <<run.rc>>
                  /\ exc' = exc
                  /\ IF sshpass_missing(run.rc)
                     THEN /\ msgbox' = SshpassMissingBox
                          /\ pc' = "done"
                     ELSE /\ msgbox' = msgbox
                          /\ pc' = "power_on"
    /\ UNCHANGED <<ssh_fields, edits, locals, elapsed, rc_on, last_probe, proc_rc, rc_off>>
    /\ UNCHANGED <<timing, history, persisted, control>>

\* 1. clusterctrl on <label>
PowerOn ==
    /\ pc = "power_on"
    /\ \E run \in ClusterctrlRuns :
          LET r == run_clusterctrl_command(run) IN
          /\ calls' = Append(calls, Call("clusterctrl", <<"on", node_label>>))
          /\ IF r.raised # ""
             THEN /\ exc' = r.raised
                  /\ pc' = "raised"
                  /\ UNCHANGED <<rc_on, msgbox, elapsed>>
             ELSE /\ rc_on' = <<r.rc>>
                  /\ exc' = exc
                  /\ IF power_on_failed(r.rc)
                     THEN /\ msgbox' = PowerOnErrorBox(node_label, r.err)
                          /\ pc' = "done"
                          /\ elapsed' = elapsed
                     ELSE /\ msgbox' = msgbox
                          /\ elapsed' = 0
                          /\ pc' = "wait"
    /\ UNCHANGED <<ssh_fields, edits, locals, rc_which, last_probe, proc_rc, rc_off>>
    /\ UNCHANGED <<timing, history, persisted, control>>

\* 2. one iteration of the wait loop: probe, and on failure sleep
ProbeAttempt ==
    /\ pc = "wait"
    /\ loop_guard(elapsed)
    /\ \E run \in ProbeRuns, d \in ProbeDurations(observe_time) :
          LET sp == shlex_split(ssh_cmd(keyfile, user_host))
              completed == IF sp.raised
                           THEN [kind |-> "ValueError", rc |-> 0, stdout |-> <<>>]
                           ELSE run
              up == completed.kind = "exit" /\ probe_up(completed)
          IN /\ last_probe' = completed
             /\ IF up
                THEN /\ calls' = Append(calls, Call("ssh", sp.argv))
                     /\ elapsed' = elapsed
                     /\ clock' = clock + d
                     /\ pc' = "after_wait"
                ELSE /\ calls' = calls \o <<Call("ssh", sp.argv), Call("sleep", <<ToString(interval)>>)>>
                     /\ elapsed' = slept(elapsed)
                     /\ clock' = clock + d + interval
                     /\ pc' = "wait"
    /\ UNCHANGED <<ssh_fields, edits, locals, rc_which, rc_on, proc_rc, rc_off, msgbox, exc>>
    /\ UNCHANGED <<observe_time, max_wait, interval, history, persisted, control>>

\* the loop condition fails: the budget is used up
WaitExhausted ==
    /\ pc = "wait"
    /\ ~loop_guard(elapsed)
    /\ pc' = "after_wait"
    /\ UNCHANGED <<ssh_fields, edits, locals, elapsed, calls, results, msgbox, exc>>
    /\ UNCHANGED <<timing, history, persisted, control>>

\* after the loop: timeout, or 3. sshpass + ssh-copy-id
InstallKey ==
    /\ pc = "after_wait"
    /\ IF timed_out(elapsed)
       THEN /\ msgbox' = TimeoutBox(user_host, node_label)
            /\ pc' = "done"
            /\ UNCHANGED <<calls, proc_rc, exc>>
       ELSE LET sp == shlex_split(copy_cmd(password, keyfile, user_host)) IN
            IF sp.raised
            THEN /\ exc' = "ValueError"
                 /\ pc' = "raised"
                 /\ UNCHANGED <<calls, proc_rc, msgbox>>
            ELSE \E run \in CopyRuns :
                    /\ calls' = Append(calls, Call("sshpass", sp.argv))
                    /\ IF run.kind # "exit"
                       THEN /\ exc' = run.kind
                            /\ pc' = "raised"
                            /\ UNCHANGED <<proc_rc, msgbox>>
                       ELSE /\ proc_rc' = <<run.rc>>
                            /\ exc' = exc
                            /\ IF copy_failed(run.rc)
                               THEN /\ msgbox' = CopyFailedBox(user_host, run.stderr)
                                    /\ pc' = "done"
                               ELSE /\ msgbox' = msgbox
                                    /\ pc' = "power_off"
    /\ UNCHANGED <<ssh_fields, edits, locals, elapsed, rc_which, rc_on, last_probe, rc_off>>
    /\ UNCHANGED <<timing, history, persisted, control>>

\* 4. clusterctrl off <label>, then clear the password field
PowerOff ==
    /\ pc = "power_off"
    /\ \E run \in ClusterctrlRuns :
          LET r == run_clusterctrl_command(run) IN
          /\ calls' = Append(calls, Call("clusterctrl", <<"off", node_label>>))
          /\ IF r.raised # ""
             THEN /\ exc' = r.raised
                  /\ pc' = "raised"
                  /\ UNCHANGED <<rc_off, msgbox, ssh_fields>>
             ELSE /\ rc_off' = <<r.rc>>
                  /\ exc' = exc
                  /\ msgbox' = IF power_off_failed(r.rc)
                               THEN PowerOffFailedBox(node_label, r.err)
                               ELSE SuccessBox(user_host, node_label)
                  /\ ssh_fields' = password_cleared(ssh_fields, node_label)
                  /\ pc' = "done"
    /\ UNCHANGED <<edits, locals, elapsed, rc_which, rc_on, last_probe, proc_rc>>
    /\ UNCHANGED <<timing, history, persisted, control>>

\* the operator dismisses the box and the handler returns
Return ==
    /\ pc = "done"
    /\ pc' = "idle"
    /\ node_label' = ""
    /\ user_host' = <<>>
    /\ keyfile' = <<>>
    /\ password' = <<>>
    /\ elapsed' = 0
    /\ calls' = <<>>
    /\ rc_which' = <<>>
    /\ rc_on' = <<>>
    /\ last_probe' = NoProbe
    /\ proc_rc' = <<>>
    /\ rc_off' = <<>>
    /\ msgbox' = NoBox
    /\ clock' = 0
    /\ given' = NoRow
    /\ first' = IF recording /\ first = NoRun /\ DistributionOutcome(msgbox) = "Succeeded"
                 THEN [node |-> node_label, given |-> given, calls |-> calls, box |-> msgbox]
                 ELSE first
    /\ UNCHANGED <<ssh_fields, edits, exc, observe_time, max_wait, interval, recording,
                   persisted, control>>

\* __init__: load the settings, build the tabs from them, select the first board
Startup ==
    /\ pc = "start"
    /\ pc' = "idle"
    /\ settings' = load_settings(config_file)
    /\ ssh_fields' = [nl \in labels |->
                         [uh |-> settings'.ssh[nl].user_host,
                          kf |-> settings'.ssh[nl].keyfile,
                          pw |-> <<>>]]
    /\ current_board_def' = Built.current_board_def
    /\ node_widgets' = Built.node_widgets
    /\ enabled' = Built.enabled
    /\ status' = Built.status
    /\ status_label' = Built.status_label
    /\ ctl_box' = Built.ctl_box
    /\ UNCHANGED <<edits, locals, elapsed, calls, results, msgbox, exc>>
    /\ UNCHANGED <<timing, history, config_file, ctl_cmd>>

(***************************************************************************)
(* Settings tab: Save and Cancel                                           *)
(***************************************************************************)
\* what Save stores for a node
saved_creds_with_password(creds, row) ==
    [user_host |-> strip(row.uh), keyfile |-> strip(row.kf), password |-> row.pw]

saved_creds(creds, row) ==
    [creds EXCEPT !.user_host = strip(row.uh), !.keyfile = strip(row.kf)]

SavedBox ==
    [icon |-> "information", title |-> "Settings",
     text |-> <<"Settings saved. Restart to apply icon & theme changes.">>]

\* _settings_save_clicked with _save_settings; the widgets other than the
\* line edits hold the values they were built with
SettingsSaveClicked ==
    /\ pc = "idle"
    /\ \E run \in SaveRuns :
          LET new == [settings EXCEPT
                         !.mode = default_settings.mode,
                         !.ssh = [nl \in DOMAIN settings.ssh |->
                                     IF nl \in DOMAIN ssh_fields
                                     THEN saved_creds(settings.ssh[nl], ssh_fields[nl])
                                     ELSE settings.ssh[nl]],
                         !.refresh_interval = default_settings.refresh_interval,
                         !.theme = default_settings.theme,
                         !.led_icon_size = default_settings.led_icon_size,
                         !.play_sound_on_off = default_settings.play_sound_on_off,
                         !.cpu_alert_threshold = default_settings.cpu_alert_threshold,
                         !.email_alert = strip(default_settings.email_alert)]
          IN /\ settings' = new
             /\ config_file' = CASE run = "written" -> [absent |-> FALSE, partial |-> FALSE, data |-> new]
                                  [] run = "dump failed" -> [absent |-> FALSE, partial |-> TRUE, data |-> new]
                                  [] OTHER -> config_file
    /\ ctl_box' = SavedBox
    /\ UNCHANGED <<ssh_fields, edits, pc, locals, elapsed, calls, results, msgbox, exc>>
    /\ UNCHANGED <<timing, history, current_board_def, node_widgets, enabled, status,
                   status_label, ctl_cmd>>

\* _settings_cancel_clicked: the line edits go back to the settings, passwords are cleared
SettingsCancelClicked ==
    /\ pc = "idle"
    /\ ssh_fields' = [nl \in DOMAIN ssh_fields |->
                         [uh |-> settings.ssh[nl].user_host,
                          kf |-> settings.ssh[nl].keyfile,
                          pw |-> <<>>]]
    /\ UNCHANGED <<edits, pc, locals, elapsed, calls, results, msgbox, exc>>
    /\ UNCHANGED <<timing, history, persisted, control>>

(***************************************************************************)
(* Control tab                                                             *)
(***************************************************************************)
\* an exception leaves a control-tab handler
Crash(kind) ==
    /\ pc' = "raised"
    /\ exc' = kind
    /\ UNCHANGED <<node_widgets, status, status_label, ctl_box>>

Refreshed(bd, widgets, q) ==
    LET rf == refresh_status(bd, widgets, status_label, q.ps) IN
    /\ status' = Got(q)
    /\ node_widgets' = rf.widgets
    /\ status_label' = rf.label
    /\ ctl_box' = rf.box
    /\ UNCHANGED <<pc, exc>>

\* _on_board_changed: select a board, rebuild the node widgets, enable the
\* extras the board supports, refresh the status
OnBoardChanged ==
    /\ pc = "idle"
    /\ \E index \in 1..Len(ALL_BOARDS), q \in StatusQueries :
          LET bd_class == ALL_BOARDS[index] IN
          /\ current_board_def' = index
          /\ enabled' = support_map(bd_class)
          /\ IF q.raised # ""
             THEN /\ pc' = "raised"
                  /\ exc' = q.raised
                  /\ node_widgets' = built_node_widgets(bd_class)
                  /\ UNCHANGED <<status, status_label, ctl_box>>
             ELSE Refreshed(bd_class, built_node_widgets(bd_class), q)
    /\ ctl_cmd' = NoCmd
    /\ UNCHANGED <<ssh_fields, edits, locals, elapsed, calls, results, msgbox>>
    /\ UNCHANGED <<timing, history, persisted>>

\* the Refresh Status button
RefreshClicked ==
    /\ pc = "idle"
    /\ \E q \in StatusQueries :
          IF q.raised # "" THEN Crash(q.raised)
          ELSE Refreshed(ALL_BOARDS[current_board_def], node_widgets, q)
    /\ ctl_cmd' = NoCmd
    /\ UNCHANGED <<ssh_fields, edits, locals, elapsed, calls, results, msgbox>>
    /\ UNCHANGED <<timing, history, persisted, current_board_def, enabled>>

\* _toggle_node: query the status, switch the node, refresh
ToggleNode ==
    /\ pc = "idle"
    /\ \E nl \in DOMAIN node_widgets, q1 \in StatusQueries :
          LET ps == q1.ps
              args == toggle_args(ps.status.map, nl)
          IN IF q1.raised # ""
             THEN Crash(q1.raised) /\ ctl_cmd' = NoCmd
             ELSE IF ~ps.status.ok
             THEN /\ ctl_box' = ErrorBox(ps.err)
                  /\ ctl_cmd' = NoCmd
                  /\ UNCHANGED <<pc, exc, node_widgets, status, status_label>>
             ELSE /\ ctl_cmd' = [seen |-> ps.status.map, args |-> args]
                  /\ \E run2 \in ClusterctrlRuns :
                        LET r2 == run_clusterctrl_command(run2) IN
                        IF r2.raised # ""
                        THEN Crash(r2.raised)
                        ELSE IF r2.rc # 0
                        THEN /\ ctl_box' = ErrorBox(<<"Failed to toggle ", upper_label(nl), ": ">> \o r2.err)
                             /\ UNCHANGED <<pc, exc, node_widgets, status, status_label>>
                        ELSE \E q3 \in StatusQueries :
                                IF q3.raised # ""
                                THEN Crash(q3.raised)
                                ELSE Refreshed(ALL_BOARDS[current_board_def], node_widgets, q3)
    /\ UNCHANGED <<ssh_fields, edits, locals, elapsed, calls, results, msgbox>>
    /\ UNCHANGED <<timing, history, persisted, current_board_def, enabled>>

UnsupportedBox(bd, extra) ==
    [icon |-> "warning", title |-> "Unsupported",
     text |-> <<bd.name, " does not support '", extra, "' control.">>]

\* _run_extra, from one of the enabled extras buttons
RunExtra ==
    /\ pc = "idle"
    /\ \E extra \in extras, state \in {"on", "off"} :
          LET bd == ALL_BOARDS[current_board_def] IN
          /\ enabled[extra]
          /\ IF ~support_map(bd)[extra]
             THEN /\ ctl_box' = UnsupportedBox(bd, extra)
                  /\ ctl_cmd' = NoCmd
                  /\ UNCHANGED <<pc, exc, node_widgets, status, status_label>>
             ELSE /\ ctl_cmd' = [seen |-> <<>>, args |-> <<extra, state>>]
                  /\ \E run2 \in ClusterctrlRuns :
                        LET r2 == run_clusterctrl_command(run2) IN
                        IF r2.raised # ""
                        THEN Crash(r2.raised)
                        ELSE IF r2.rc # 0
                        THEN /\ ctl_box' = ErrorBox(<<"Failed to run 'clusterctrl ", extra, " ", state, "': ">> \o r2.err)
                             /\ UNCHANGED <<pc, exc, node_widgets, status, status_label>>
                        ELSE \E q3 \in StatusQueries :
                                IF q3.raised # "" THEN Crash(q3.raised)
                                ELSE Refreshed(bd, node_widgets, q3)
    /\ UNCHANGED <<ssh_fields, edits, locals, elapsed, calls, results, msgbox>>
    /\ UNCHANGED <<timing, history, persisted, current_board_def, enabled>>

Next ==
    \/ EditUserHost
    \/ EditKeyfile
    \/ EditPassword
    \/ DistributeClicked
    \/ PrereqCheck
    \/ PowerOn
    \/ ProbeAttempt
    \/ WaitExhausted
    \/ InstallKey
    \/ PowerOff
    \/ Return

Spec == Init /\ [][Next]_vars

\* the handler alone
Handler ==
    \/ DistributeClicked
    \/ PrereqCheck
    \/ PowerOn
    \/ ProbeAttempt
    \/ WaitExhausted
    \/ InstallKey
    \/ PowerOff
    \/ Return

\* the handler with the duration of the probes observed
InitClock ==
    /\ Constructed
    /\ PollConfig
    /\ observe_time = TRUE
    /\ recording = FALSE
    /\ ssh_fields = [nl \in labels |->
                        [uh |-> default_user_host(nl), kf |-> default_keyfile, pw |-> <<>>]]
    /\ edits = 0
    /\ pc = "idle"
    /\ node_label = ""
    /\ user_host = <<>>
    /\ keyfile = <<>>
    /\ password = <<>>
    /\ elapsed = 0
    /\ calls = <<>>
    /\ rc_which = <<>>
    /\ rc_on = <<>>
    /\ last_probe = NoProbe
    /\ proc_rc = <<>>
    /\ rc_off = <<>>
    /\ msgbox = NoBox
    /\ exc = ""

NextClock == Handler

SpecClock == InitClock /\ [][NextClock]_vars

\* repeated invocations, the first Succeeded one remembered; the operator
\* has typed a password into the row of p1 and blanked the hosts of p3 and p4
InitRepeat ==
    /\ Constructed
    /\ PollConfig
    /\ observe_time = FALSE
    /\ recording = TRUE
    /\ ssh_fields = [nl \in labels |->
                        [uh |-> IF nl \in {"p1", "p2"} THEN default_user_host(nl) ELSE <<" ">>,
                         kf |-> default_keyfile,
                         pw |-> IF nl = "p1" THEN <<"pw">> ELSE <<>>]]
    /\ edits = 0
    /\ pc = "idle"
    /\ node_label = ""
    /\ user_host = <<>>
    /\ keyfile = <<>>
    /\ password = <<>>
    /\ elapsed = 0
    /\ calls = <<>>
    /\ rc_which = <<>>
    /\ rc_on = <<>>
    /\ last_probe = NoProbe
    /\ proc_rc = <<>>
    /\ rc_off = <<>>
    /\ msgbox = NoBox
    /\ exc = ""

\* the operator types the password of the remembered invocation into the
\* field of its node again
RetypePassword ==
    /\ pc = "idle"
    /\ first # NoRun
    /\ ssh_fields[first.node].pw # first.given.pw
    /\ ssh_fields' = [ssh_fields EXCEPT ![first.node].pw = first.given.pw]
    /\ UNCHANGED <<edits, pc, locals, elapsed, calls, results, msgbox, exc>>
    /\ UNCHANGED <<timing, history, persisted, control>>

NextRepeat ==
    \/ RetypePassword
    \/ Handler

SpecRepeat == InitRepeat /\ [][NextRepeat]_vars

\* the handler under any wait budget and poll interval: the values of the
\* code and every pair of small ones
InitWait ==
    /\ Constructed
    /\ \/ PollConfig
       \/ /\ max_wait \in 1..MaxBudget
          /\ interval \in 1..MaxInterval
    /\ observe_time = FALSE
    /\ recording = FALSE
    /\ ssh_fields = [nl \in labels |->
                        [uh |-> default_user_host(nl), kf |-> default_keyfile, pw |-> <<>>]]
    /\ edits = 0
    /\ pc = "idle"
    /\ node_label = ""
    /\ user_host = <<>>
    /\ keyfile = <<>>
    /\ password = <<>>
    /\ elapsed = 0
    /\ calls = <<>>
    /\ rc_which = <<>>
    /\ rc_on = <<>>
    /\ last_probe = NoProbe
    /\ proc_rc = <<>>
    /\ rc_off = <<>>
    /\ msgbox = NoBox
    /\ exc = ""

NextWait == Handler

SpecWait == InitWait /\ [][NextWait]_vars

\* the handler when every external call it makes returns: a step that is
\* possible is eventually taken
SpecReturns ==
    /\ InitWait
    /\ [][NextWait]_vars
    /\ WF_vars(PrereqCheck)
    /\ WF_vars(PowerOn)
    /\ WF_vars(ProbeAttempt)
    /\ WF_vars(WaitExhausted)
    /\ WF_vars(InstallKey)
    /\ WF_vars(PowerOff)

\* the program from before its start, with any of the configuration files
InitLoad ==
    /\ PollConfig
    /\ config_file \in ConfigFiles
    /\ pc = "start"
    /\ settings = <<>>
    /\ ssh_fields = <<>>
    /\ current_board_def = 0
    /\ node_widgets = <<>>
    /\ enabled = [extra \in extras |-> FALSE]
    /\ status = [ok |-> FALSE, map |-> <<>>, stdout |-> <<>>]
    /\ status_label = <<>>
    /\ ctl_box = NoBox
    /\ ctl_cmd = NoCmd
    /\ clock = 0
    /\ given = NoRow
    /\ first = NoRun
    /\ observe_time = FALSE
    /\ recording = FALSE
    /\ edits = 0
    /\ node_label = ""
    /\ user_host = <<>>
    /\ keyfile = <<>>
    /\ password = <<>>
    /\ elapsed = 0
    /\ calls = <<>>
    /\ rc_which = <<>>
    /\ rc_on = <<>>
    /\ last_probe = NoProbe
    /\ proc_rc = <<>>
    /\ rc_off = <<>>
    /\ msgbox = NoBox
    /\ exc = ""

NextLoad ==
    \/ Startup
    \/ Handler

SpecLoad == InitLoad /\ [][NextLoad]_vars

\* the settings tab: Save, Cancel and Distribute in any order, after the
\* operator has typed passwords into the rows of p1 and p2
InitSettings ==
    /\ Constructed
    /\ PollConfig
    /\ observe_time = FALSE
    /\ recording = FALSE
    /\ ssh_fields = [nl \in labels |->
                        [uh |-> default_user_host(nl), kf |-> default_keyfile,
                         pw |-> CASE nl = "p1" -> <<"it", "'", "s">>
                                  [] nl = "p2" -> <<"pw">>
                                  [] OTHER -> <<>>]]
    /\ edits = 0
    /\ pc = "idle"
    /\ node_label = ""
    /\ user_host = <<>>
    /\ keyfile = <<>>
    /\ password = <<>>
    /\ elapsed = 0
    /\ calls = <<>>
    /\ rc_which = <<>>
    /\ rc_on = <<>>
    /\ last_probe = NoProbe
    /\ proc_rc = <<>>
    /\ rc_off = <<>>
    /\ msgbox = NoBox
    /\ exc = ""

NextSettings ==
    \/ SettingsSaveClicked
    \/ SettingsCancelClicked
    \/ Handler

SpecSettings == InitSettings /\ [][NextSettings]_vars

\* the control tab
NextControl ==
    \/ OnBoardChanged
    \/ RefreshClicked
    \/ ToggleNode
    \/ RunExtra

SpecControl == Init /\ [][NextControl]_vars

\* board selection and the Distribute buttons
NextBoard ==
    \/ OnBoardChanged
    \/ Handler

SpecBoard == Init /\ [][NextBoard]_vars

(***************************************************************************)
(* Vocabulary of the properties                                            *)
(***************************************************************************)
outcome == DistributionOutcome(msgbox)

SixOutcomes ==
    {"Succeeded", "MissingPrerequisite", "PowerOnFailed", "Timeout",
     "KeyInstallFailed", "PowerOffFailed"}

\* the name of an external step: the gateway's sub-command, else the program
StepName(c) == IF c.op = "clusterctrl" THEN c.args[1] ELSE c.op

Steps == [i \in 1..Len(calls) |-> StepName(calls[i])]

IsSleep(n) == n = "sleep"
IsWork(n) == n # "sleep"
IsProbe(n) == n = "ssh"

WorkSteps == SelectSeq(Steps, IsWork)
Attempts == Len(SelectSeq(Steps, IsProbe))
Sleeps == Len(SelectSeq(Steps, IsSleep))

Invoked(n) == \E i \in 1..Len(calls) : StepName(calls[i]) = n

\* the node answered this probe: exit code zero and the marker in its output
Responded(p) == p.kind = "exit" /\ p.rc = 0 /\ contains(p.stdout, token)

Failed(rcv) == rcv # <<>> /\ rcv[1] # 0
Passed(rcv) == rcv = <<0>>

\* the message tells the operator that the node is still powered on
StatesLeftOn(m) ==
    \E i \in 1..Len(m.text) :
        m.text[i] \in { " remains powered ON for manual setup.",
                        " was ON and key copied, but failed to power OFF: " }

(***************************************************************************)
(* C1. When the prerequisite lookup does not find sshpass, the handler     *)
(* ends with MissingPrerequisite and has invoked nothing but the lookup:   *)
(* no gateway command, no probe, no install, no power-off.                 *)
(***************************************************************************)
C1_MissingPrerequisiteTouchesNothing ==
    Failed(rc_which) =>
        /\ pc = "done"
        /\ outcome = "MissingPrerequisite"
        /\ Steps = <<"which">>
        /\ rc_on = <<>> /\ proc_rc = <<>> /\ rc_off = <<>>

C1_Witness ==
    /\ pc = "done"
    /\ rc_which = <<1>>
    /\ msgbox = SshpassMissingBox
    /\ Len(calls) = 1

(***************************************************************************)
(* C2. When the lookup and the power-on succeed, the k-th probe is the     *)
(* first to succeed and install and power-off succeed, the handler ends    *)
(* with Succeeded after the steps which, on, k probes, install, off, in    *)
(* that order, with k between 1 and max_wait / interval and k-1 sleeps.    *)
(***************************************************************************)
C2_SucceededSequence ==
    ( /\ pc = "done"
      /\ Passed(rc_which) /\ Passed(rc_on)
      /\ Responded(last_probe)
      /\ ~Failed(proc_rc) /\ ~Failed(rc_off) )
    => /\ outcome = "Succeeded"
       /\ Attempts \in 1..(max_wait \div interval)
       /\ WorkSteps = <<"which", "on">> \o [i \in 1..Attempts |-> "ssh"]
                          \o <<"sshpass", "off">>
       /\ Sleeps = Attempts - 1
       /\ elapsed = (Attempts - 1) * interval
       /\ \A i \in 1..Len(calls) :
             calls[i].op = "clusterctrl" => calls[i].args[2] = node_label

C2_Witness ==
    /\ pc = "done"
    /\ outcome = "Succeeded"
    /\ Responded(last_probe)
    /\ Attempts = 3
    /\ WorkSteps = <<"which", "on", "ssh", "ssh", "ssh", "sshpass", "off">>

(***************************************************************************)
(* C3. When the power-on succeeded and no probe succeeds, the handler      *)
(* makes exactly 24 probe attempts and ends with Timeout after 120 s,      *)
(* having invoked neither the copy helper nor the power-off command.       *)
(***************************************************************************)
C3_TimeoutAfter24Attempts ==
    (pc = "done" /\ Passed(rc_on) /\ ~Responded(last_probe))
    => /\ outcome = "Timeout"
       /\ Attempts = 24
       /\ elapsed = 120
       /\ msgbox = TimeoutBox(user_host, node_label)
       /\ contains(msgbox.text, <<" did not respond within ", "120", " seconds.\n">>)
       /\ ~Invoked("sshpass") /\ ~Invoked("off")
       /\ proc_rc = <<>> /\ rc_off = <<>>

C3_Witness ==
    /\ pc = "done"
    /\ outcome = "Timeout"
    /\ Attempts = 24
    /\ elapsed = 120
    /\ ~Responded(last_probe)

(***************************************************************************)
(* C4. When the key-install helper exits non-zero, the handler ends with   *)
(* KeyInstallFailed and the gateway command off is not invoked.            *)
(***************************************************************************)
C4_KeyInstallFailedLeavesOn ==
    Failed(proc_rc) =>
        /\ pc = "done"
        /\ outcome = "KeyInstallFailed"
        /\ ~Invoked("off")
        /\ rc_off = <<>>
        /\ calls[Len(calls)].op = "sshpass"

C4_Witness ==
    /\ pc = "done"
    /\ proc_rc = <<1>>
    /\ outcome = "KeyInstallFailed"
    /\ Invoked("on")

(***************************************************************************)
(* C5. When the install succeeded and the power-off command exits          *)
(* non-zero, the handler ends with PowerOffFailed; that outcome has a box  *)
(* other than the KeyInstallFailed and Succeeded ones and occurs only      *)
(* after the install helper exited zero.                                   *)
(***************************************************************************)
C5_PowerOffFailedDistinct ==
    /\ (Passed(proc_rc) /\ Failed(rc_off)) =>
           (pc = "done" /\ outcome = "PowerOffFailed")
    /\ (outcome = "PowerOffFailed") =>
           /\ Passed(proc_rc) /\ Failed(rc_off)
           /\ Invoked("sshpass")
           /\ msgbox.title \notin {"SSH Copy Failed", "Success"}
           /\ msgbox # SuccessBox(user_host, node_label)
           /\ \A run \in CopyRuns : msgbox # CopyFailedBox(user_host, run.stderr)

C5_Witness ==
    /\ pc = "done"
    /\ Passed(proc_rc)
    /\ rc_off = <<-1>>
    /\ outcome = "PowerOffFailed"

(***************************************************************************)
(* C6. When the gateway command on exits non-zero (the -1 of a missing     *)
(* executable included), the handler ends with PowerOnFailed, its message  *)
(* carries the stderr the gateway returned, and no probe, install or       *)
(* power-off is invoked.                                                   *)
(***************************************************************************)
C6_PowerOnFailedStops ==
    Failed(rc_on) =>
        /\ pc = "done"
        /\ outcome = "PowerOnFailed"
        /\ \E run \in ClusterctrlRuns :
              LET r == run_clusterctrl_command(run) IN
              /\ r.raised = "" /\ r.rc = rc_on[1]
              /\ msgbox.text = <<"Failed to power ON ", upper(node_label), ": ">> \o r.err
        /\ Steps = <<"which", "on">>
        /\ proc_rc = <<>> /\ rc_off = <<>> /\ last_probe = NoProbe

C6_Witness ==
    /\ pc = "done"
    /\ rc_on = <<-1>>
    /\ outcome = "PowerOnFailed"
    /\ msgbox.text = <<"Failed to power ON ", upper(node_label), ": ">> \o not_found_msg

(***************************************************************************)
(* C7. A probe attempt ends the wait loop exactly when the probe exited    *)
(* zero with the marker in its output; every other attempt (non-zero exit  *)
(* with the marker, zero exit without it, a probe that raised) is followed *)
(* by one sleep of the poll interval and control returns to the loop: no   *)
(* message box, no exception.                                              *)
(***************************************************************************)
C7_ProbeStep ==
    (pc = "wait" /\ calls' # calls) =>
        IF Responded(last_probe')
        THEN /\ pc' = "after_wait"
             /\ elapsed' = elapsed
             /\ Len(calls') = Len(calls) + 1
             /\ calls'[Len(calls')].op = "ssh"
        ELSE /\ pc' = "wait"
             /\ elapsed' = elapsed + interval
             /\ Len(calls') = Len(calls) + 2
             /\ calls'[Len(calls') - 1].op = "ssh"
             /\ calls'[Len(calls')] = Call("sleep", <<ToString(interval)>>)
             /\ msgbox' = NoBox /\ exc' = ""

C7_ProbeSuccessNeedsBoth == [][C7_ProbeStep]_vars

C7_Witness ==
    /\ pc = "wait"
    /\ last_probe.kind = "exit"
    /\ last_probe.rc # 0
    /\ contains(last_probe.stdout, token)
    /\ elapsed = 2 * interval
    /\ Sleeps = 2

(***************************************************************************)
(* C8. Nothing is raised across the workflow boundary: whatever the        *)
(* external steps do, the handler returns normally with an outcome.        *)
(***************************************************************************)
C8_NothingRaised ==
    pc # "raised" /\ exc = ""

(***************************************************************************)
(* C9. Every invocation, for every content of the line edits, ends in one  *)
(* of the six outcomes Succeeded, MissingPrerequisite, PowerOnFailed,      *)
(* Timeout, KeyInstallFailed, PowerOffFailed.                              *)
(***************************************************************************)
C9_OneOfSixOutcomes ==
    (pc \in {"done", "raised"}) => outcome \in SixOutcomes

(***************************************************************************)
(* C10. Whenever the handler ends with Timeout, KeyInstallFailed or        *)
(* PowerOffFailed, its message states that the node was left ON.           *)
(***************************************************************************)
C10_LeftOnReported ==
    (pc = "done" /\ outcome \in {"Timeout", "KeyInstallFailed", "PowerOffFailed"})
    => StatesLeftOn(msgbox)

(***************************************************************************)
(* C11. When the handler ends with Succeeded the password field of that    *)
(* node is empty; the handler changes the line edits only by emptying the  *)
(* password of its own node, and only after the copy helper was invoked    *)
(* with that password; the fields of the other nodes stay as they were.    *)
(***************************************************************************)
C11_ClearStep ==
    (pc # "idle" /\ ssh_fields' # ssh_fields) =>
        /\ ssh_fields'[node_label].pw = <<>>
        /\ ssh_fields'[node_label].uh = ssh_fields[node_label].uh
        /\ ssh_fields'[node_label].kf = ssh_fields[node_label].kf
        /\ \A l \in labels \ {node_label} : ssh_fields'[l] = ssh_fields[l]
        /\ \E i \in 1..Len(calls) :
              /\ calls[i].op = "sshpass"
              /\ password # <<>> => calls[i].args[3] = password

C11_ClearedWhenSucceeded ==
    (pc = "done" /\ outcome = "Succeeded") => ssh_fields[node_label].pw = <<>>

C11_PasswordClearedAfterUse ==
    []C11_ClearedWhenSucceeded /\ [][C11_ClearStep]_vars

C11_Witness ==
    /\ pc = "done"
    /\ outcome = "Succeeded"
    /\ password = <<"pw">>
    /\ ssh_fields[node_label].pw = <<>>
    /\ \E i \in 1..Len(calls) : calls[i].op = "sshpass" /\ calls[i].args[3] = <<"pw">>

(***************************************************************************)
(* C13. In one invocation the prerequisite lookup, the power-on command,   *)
(* the copy helper and the power-off command are each invoked at most      *)
(* once, and a stage that failed ends the invocation.                      *)
(***************************************************************************)
Times(n) == Cardinality({i \in 1..Len(calls) : StepName(calls[i]) = n})

C13_NoStageRetried ==
    /\ \A n \in {"which", "on", "sshpass", "off"} : Times(n) <= 1
    /\ (Failed(rc_which) \/ Failed(rc_on) \/ Failed(proc_rc) \/ Failed(rc_off))
           => pc = "done"

C13_Witness ==
    /\ pc = "done"
    /\ Failed(proc_rc)
    /\ Attempts = 4
    /\ Times("which") = 1 /\ Times("on") = 1 /\ Times("sshpass") = 1 /\ Times("off") = 0

(***************************************************************************)
(* C17. The gateway never raises: whatever happens to the run of the       *)
(* control executable, the caller of the gateway gets an exit code back.   *)
(***************************************************************************)
C17_GatewayNeverRaises ==
    (calls # <<>> /\ calls[Len(calls)] = Call("clusterctrl", <<"on", node_label>>))
    => (pc # "raised" /\ exc = "" /\ rc_on # <<>>)

(***************************************************************************)
(* C12: the password is never persisted                                    *)
(***************************************************************************)
\* a record of settings holds, for each node, only user_host and keyfile, and
\* nothing in it is a password the operator can type
NoPasswordIn(record) ==
    /\ \A nl \in DOMAIN record.ssh :
          /\ DOMAIN record.ssh[nl] = {"user_host", "keyfile"}
          /\ record.ssh[nl].user_host \notin PasswordTexts
          /\ record.ssh[nl].keyfile \notin PasswordTexts
    /\ DOMAIN record = DOMAIN default_settings
    /\ record.email_alert \notin PasswordTexts

\* C12: whatever passwords are typed and whatever sequence of Save, Cancel
\* and Distribute is run, the settings record and the saved configuration
\* hold only user_host and keyfile for each node, never a password value
C12_PasswordNeverPersisted ==
    /\ NoPasswordIn(settings)
    /\ ~config_file.absent => NoPasswordIn(config_file.data)

\* Save has written the configuration while the password typed into the
\* field of p1 is still there, after a distribution for p2 has used and
\* cleared the password of p2
C12_Witness ==
    /\ ~config_file.absent
    /\ ~config_file.partial
    /\ ssh_fields["p1"].pw = <<"it", "'", "s">>
    /\ ssh_fields["p2"].pw = <<>>
    /\ ctl_box = SavedBox

(***************************************************************************)
(* C14: the wait for SSH, measured in wall-clock time                      *)
(***************************************************************************)
\* C14: counting the duration of each probe and each sleep, the time from
\* the first probe to leaving the wait loop never exceeds the 120 s budget
C14_WaitWithinBudget == clock <= max_wait

(***************************************************************************)
(* C15: repeating a distribution after it Succeeded                        *)
(***************************************************************************)
ProbeCalls(cs) == Cardinality({i \in 1..Len(cs) : IsProbe(StepName(cs[i]))})

\* a later invocation for the node of the remembered one has ended, with the
\* same fields and the same responses from the external steps
C15_Repeated ==
    /\ first # NoRun
    /\ pc = "done"
    /\ node_label = first.node
    /\ given = first.given
    /\ Passed(rc_which) /\ Passed(rc_on) /\ Passed(proc_rc) /\ Passed(rc_off)
    /\ Responded(last_probe)
    /\ Attempts = ProbeCalls(first.calls)

\* C15: an invocation that repeats a Succeeded one with the same user@host,
\* key file and password and gets the same responses issues the same ordered
\* external calls with the same arguments and ends with the same outcome
C15_RepeatRunsFullSequence ==
    C15_Repeated =>
        /\ calls = first.calls
        /\ msgbox = first.box
        /\ outcome = "Succeeded"

\* the repeated invocation, with the password typed again, went through two
\* probes as the first one did and has cleared the field again
C15_Witness ==
    /\ C15_Repeated
    /\ password = <<"pw">>
    /\ ssh_fields[node_label].pw = <<>>
    /\ Attempts = 2
    /\ Len(calls) = 7

(***************************************************************************)
(* C16: the labels offered for distribution and the selected board         *)
(***************************************************************************)
BoardLabels(bd) == {valid_node_labels(bd)[i] : i \in 1..bd.supports_nodes}

\* C16: for every board selection a label is offered for distribution
\* exactly if it is one of the board's p1..pN, and the handler is only ever
\* invoked with such a label
C16_OfferedIffValid ==
    /\ DOMAIN ssh_fields = BoardLabels(ALL_BOARDS[current_board_def])
    /\ node_label # "" => node_label \in BoardLabels(ALL_BOARDS[current_board_def])

(***************************************************************************)
(* C18: what a status query returns on a zero exit code                    *)
(***************************************************************************)
SpecExample ==
    <<"p1", ":", " ", "1", "\n", "hub", ":", "0", "\n", "not-a-line", "\n",
      "fan", " ", ":", " ", "1">>

\* the lines of a text, cut at each newline
LinesOf(text) ==
    LET ends == {i \in 1..Len(text) : text[i] = "\n"} \cup {Len(text) + 1}
        start(e) == IF \E j \in ends : j < e
                    THEN (CHOOSE j \in ends : j < e /\ \A k \in ends : k < e => k <= j) + 1
                    ELSE 1
    IN { [at |-> e, line |-> SubSeq(text, start(e), e - 1)] : e \in ends }

HasColon(l) == \E i \in 1..Len(l) : l[i] = ":"
FirstColon(l) == CHOOSE i \in 1..Len(l) : l[i] = ":" /\ \A j \in 1..(i - 1) : l[j] # ":"
KeyOf(l) == strip(SubSeq(l, 1, FirstColon(l) - 1))
ValOf(l) == strip(SubSeq(l, FirstColon(l) + 1, Len(l)))

\* C18: on a zero exit code the snapshot has one entry per distinct key of
\* the colon-containing lines of stdout, each line split at its first colon
\* only, key and value trimmed, a later line overwriting an earlier one with
\* the same key, lines without a colon adding nothing; the example of the
\* specification yields exactly p1, hub and fan
C18_SnapshotOfStdout ==
    status.ok =>
        LET entries == {e \in LinesOf(status.stdout) : HasColon(e.line)} IN
        /\ DOMAIN status.map = {KeyOf(e.line) : e \in entries}
        /\ \A e \in entries :
              (\A f \in entries : KeyOf(f.line) = KeyOf(e.line) => f.at <= e.at)
                  => status.map[KeyOf(e.line)] = ValOf(e.line)
        /\ status.stdout = SpecExample =>
              /\ DOMAIN status.map = {<<"p1">>, <<"hub">>, <<"fan">>}
              /\ status.map[<<"p1">>] = <<"1">>
              /\ status.map[<<"hub">>] = <<"0">>
              /\ status.map[<<"fan">>] = <<"1">>

\* a refresh has parsed an output with a repeated key, padded lines and a
\* value that holds a colon
C18_Witness ==
    /\ status.ok
    /\ \E e, f \in LinesOf(status.stdout) :
          /\ HasColon(e.line) /\ HasColon(f.line)
          /\ e.at < f.at
          /\ KeyOf(e.line) = KeyOf(f.line)
          /\ ValOf(e.line) # ValOf(f.line)
    /\ \E e \in LinesOf(status.stdout) : HasColon(e.line) /\ HasColon(ValOf(e.line))
    /\ status.map[<<"p1">>] = <<"1">>
    /\ status.map[<<"note">>] = <<"a", ":", "b">>

(***************************************************************************)
(* C19: the board catalog                                                  *)
(***************************************************************************)
Variants == 1..Len(ALL_BOARDS)
WithNodes(n) == Cardinality({b \in Variants : ALL_BOARDS[b].supports_nodes = n})
WithoutHubLed == Cardinality({b \in Variants : ~ALL_BOARDS[b].supports_hub_led})
WithoutAlert == Cardinality({b \in Variants : ~ALL_BOARDS[b].supports_alert})
WithoutWp == Cardinality({b \in Variants : ~ALL_BOARDS[b].supports_wp})

\* five variants with node counts 1, 3, 4, 4 and 6, two without hub/LED, one
\* without alert; the fan buttons are enabled whatever board is selected, and
\* the other buttons as the selected board supports them
CatalogButWp ==
    /\ Len(ALL_BOARDS) = 5
    /\ WithNodes(1) = 1 /\ WithNodes(3) = 1 /\ WithNodes(4) = 2 /\ WithNodes(6) = 1
    /\ WithoutHubLed = 2
    /\ WithoutAlert = 1
    /\ \A b \in Variants : support_map(ALL_BOARDS[b])["fan"]
    /\ enabled = support_map(ALL_BOARDS[current_board_def])
    /\ enabled["fan"]

\* C19 as stated: five variants with node counts 1, 3, 4, 4 and 6, exactly
\* two without hub/LED, exactly one without alert, exactly two without
\* write-protect, all with the fan toggle
C19_CatalogTwoWithoutWp == CatalogButWp /\ WithoutWp = 2

\* C19 amended: as stated, but exactly four variants lack write-protect
C19_CatalogFourWithoutWp == CatalogButWp /\ WithoutWp = 4

\* the three-node board is selected: its write-protect buttons are disabled
\* and its fan toggle has been run
C19_Witness ==
    /\ ALL_BOARDS[current_board_def].supports_nodes = 3
    /\ ~enabled["wp"]
    /\ enabled["hub"]
    /\ ctl_cmd.args = <<"fan", "on">>

(***************************************************************************)
(* C20: keys absent from a status snapshot                                 *)
(***************************************************************************)
NodeKeys == {<<nl>> : nl \in all_labels}
FeatureKeys == {<<"hub">>, <<"led">>, <<"alert">>, <<"wp">>, <<"fan">>}

\* the snapshot with the key mapped to "0"
WithZero(d, key) == dict_set(d, key, zero)

\* what the control tab shows is what it would show had the absent key been "0"
ShownAsZero(key) ==
    /\ status_label = summary(ALL_BOARDS[current_board_def], WithZero(status.map, key))
    /\ \A nl \in DOMAIN node_widgets :
          node_widgets[nl] = icon_of(WithZero(status.map, key), nl)

\* the toggle command issued for a node absent from the snapshot it was
\* decided on is the one issued had the node been "0"
ToggledAsZero ==
    (ctl_cmd.args # <<>> /\ ctl_cmd.args[1] \in {"on", "off"}
        /\ <<ctl_cmd.args[2]>> \notin DOMAIN ctl_cmd.seen)
    => ctl_cmd.args = toggle_args(WithZero(ctl_cmd.seen, <<ctl_cmd.args[2]>>), ctl_cmd.args[2])

Absent(keys) == IF pc = "idle" /\ status.ok THEN keys \ DOMAIN status.map ELSE {}

\* C20 as stated: for node labels and for each of hub, led, alert, wp and
\* fan, the toggle decision and the status summary are the same for an absent
\* key as for that key mapped to "0"
C20_AbsentIsZero ==
    /\ \A key \in Absent(NodeKeys \cup FeatureKeys) : ShownAsZero(key)
    /\ ToggledAsZero

\* C20 amended: this holds for node labels and for hub, led, alert and wp;
\* when fan is absent the summary has no FAN entry, while fan mapped to "0"
\* adds the entry FAN=OFF
C20_AbsentIsZeroButFan ==
    /\ \A key \in Absent((NodeKeys \cup FeatureKeys) \ {<<"fan">>}) : ShownAsZero(key)
    /\ ToggledAsZero
    /\ \A key \in Absent({<<"fan">>}) :
          /\ \A i \in 1..Len(status_label) : status_label[i] # "FAN"
          /\ summary(ALL_BOARDS[current_board_def], WithZero(status.map, key))
                = status_label \o <<"   |   ", "FAN", "=", "OFF">>

\* on the board with every feature, a node missing from the snapshot has
\* been switched on and the refresh after it got an empty snapshot
C20_Witness ==
    /\ pc = "idle"
    /\ status.ok
    /\ status.map = <<>>
    /\ current_board_def = 1
    /\ ctl_cmd.args = <<"on", "p2">>
    /\ <<"p2">> \notin DOMAIN ctl_cmd.seen
    /\ <<"p1">> \in DOMAIN ctl_cmd.seen

(***************************************************************************)
(* C21: the number of probe attempts and the Timeout outcome               *)
(***************************************************************************)
Ceil(a, b) == (a + b - 1) \div b

\* the wait loop has been left
LoopLeft == pc \in {"after_wait", "power_off", "done", "raised"} /\ Passed(rc_on)

\* every permitted attempt was made and none succeeded
AllAttemptsFailed == Attempts = Ceil(max_wait, interval) /\ ~Responded(last_probe)

\* C21: for every wait budget and poll interval the number of probe attempts
\* of an invocation is at most ceil(max_wait / interval), and Timeout is the
\* outcome exactly if all of those attempts failed; a probe that succeeds on
\* the last permitted attempt goes on to the key installation
C21_AttemptsAndTimeout ==
    /\ Attempts <= Ceil(max_wait, interval)
    /\ (LoopLeft /\ pc = "done") => (outcome = "Timeout" <=> AllAttemptsFailed)
    /\ (LoopLeft /\ pc # "after_wait" /\ Responded(last_probe)) =>
          \/ Invoked("sshpass")
          \/ pc = "raised"
    /\ (LoopLeft /\ AllAttemptsFailed) => ~Invoked("sshpass")

\* with a budget that is no multiple of the interval, the last permitted
\* attempt succeeded and the invocation Succeeded
C21_Witness ==
    /\ max_wait % interval # 0
    /\ pc = "done"
    /\ Attempts = Ceil(max_wait, interval)
    /\ Attempts >= 2
    /\ Responded(last_probe)
    /\ outcome = "Succeeded"

(***************************************************************************)
(* C22: loading the settings from a configuration file                     *)
(***************************************************************************)
\* C22: after a start with a readable file of valid JSON the settings hold
\* every value of the file, and defaults only for the top-level keys and the
\* ssh entries of p1..p6 that the file lacks, also when the ssh section of
\* the file lacks node labels
C22_LoadPreservesFile ==
    (pc # "start" /\ ~config_file.absent /\ ~config_file.partial) =>
        LET data == config_file.data IN
        /\ DOMAIN settings = DOMAIN default_settings
        /\ \A k \in DOMAIN default_settings \ {"ssh"} :
              settings[k] = IF k \in DOMAIN data THEN data[k] ELSE default_settings[k]
        /\ DOMAIN settings.ssh = all_labels
        /\ \A nl \in all_labels :
              settings.ssh[nl] = IF "ssh" \in DOMAIN data /\ nl \in DOMAIN data.ssh
                                 THEN data.ssh[nl]
                                 ELSE default_settings.ssh[nl]

(***************************************************************************)
(* C23: every invocation ends                                              *)
(***************************************************************************)
Running == pc \in {"prereq", "power_on", "wait", "after_wait", "power_off"}
Ended == pc \in {"done", "raised"}

\* a failed attempt moves the elapsed counter up by the poll interval
C23_FailedAttemptStep ==
    (pc = "wait" /\ pc' = "wait" /\ calls' # calls) =>
        /\ elapsed' = elapsed + interval
        /\ elapsed' > elapsed

\* C23: when every external call returns, every invocation ends: each failed
\* attempt of the wait loop raises the elapsed counter by the poll interval,
\* so the handler reaches its end whatever the probes answer
C23_InvocationEnds ==
    /\ [][C23_FailedAttemptStep]_vars
    /\ Running ~> Ended

\* every probe failed under a budget that is no multiple of the interval:
\* the counter has passed the budget and the invocation has ended
C23_Witness ==
    /\ pc = "done"
    /\ outcome = "Timeout"
    /\ max_wait % interval # 0
    /\ elapsed > max_wait
    /\ Sleeps = Attempts

====
